---- MODULE Spec2Model ----
(***************************************************************************)
(* The local line-editor shell of react-xterm (TerminalComponent): the     *)
(* input line, the command history, the prompt, the dispatch callbacks     *)
(* and the effect's mount / cleanup, over a model of the display surface   *)
(* that interprets the byte sequences the component writes.                *)
(*                                                                         *)
(* Text is a sequence of one-character strings.  The display is modelled   *)
(* for lines shorter than the terminal width (no wrapping), and a write    *)
(* is taken to be parsed before the next event is handled.                 *)
(***************************************************************************)
EXTENDS Integers, Sequences, FiniteSets, TLC

(* ------------------------------ bounds --------------------------------- *)
\* the longest input line the user composes, the clear command aside
MaxLine == 1
\* commands are submitted while the history log is shorter
MaxHistory == 2
\* callbacks outstanding at one time
MaxPending == 1

\* runs of the remote view's effect
MaxMounts == 2

\* pending timeouts of the connect handler
MaxTimers == 1

\* pending clipboard reads
MaxPromises == 1

(* ------------------------------- text ---------------------------------- *)
\* A character is a one-character string; the control characters are named
\* "CR" (13), "LF" (10), "BS" (8), "DEL" (127) and "ESC" (27).
terminalTitleTemplate ==
    <<"[", "r", "o", "o", "t", "@", "s", "e", "r", "v", "e", "r", "]", " ", "$", " ">>

\* terminalTitleTemplate.replace(/\x1B\[[0-9;]*[a-zA-Z]/g, ''): the template
\* holds no escape character, so nothing is removed
visiblePrompt == SelectSeq(terminalTitleTemplate, LAMBDA c : c # "ESC")

promptLength == Len(visiblePrompt)

ClearCmd == <<"c", "l", "e", "a", "r">>

IsSpace(c) == c = " "

RECURSIVE TrimStart(_)
TrimStart(s) ==
    IF s # <<>> /\ IsSpace(Head(s)) THEN TrimStart(Tail(s)) ELSE s

RECURSIVE TrimEnd(_)
TrimEnd(s) ==
    IF s # <<>> /\ IsSpace(s[Len(s)]) THEN TrimEnd(SubSeq(s, 1, Len(s) - 1)) ELSE s

\* String.prototype.trim
Trim(s) == TrimEnd(TrimStart(s))

\* s.slice(0, -1)
SliceDropLast(s) == IF s = <<>> THEN <<>> ELSE SubSeq(s, 1, Len(s) - 1)

(* ------------------------------ display -------------------------------- *)
\* The terminal: the cells of the cursor row (blank cells at the end are not
\* stored), the cursor column (0-based) and whether the buffer holds rows
\* above the cursor row.
NewTerminal == [row |-> <<>>, cursorX |-> 0, rowsAbove |-> FALSE]

Cell(t, i) == IF i <= Len(t.row) THEN t.row[i] ELSE " "

PutCell(row, x, c) ==
    [i \in 1..(IF x + 1 > Len(row) THEN x + 1 ELSE Len(row)) |->
        IF i = x + 1 THEN c ELSE IF i <= Len(row) THEN row[i] ELSE " "]

Min(a, b) == IF a < b THEN a ELSE b

Digits == <<"0", "1", "2", "3", "4", "5", "6", "7", "8", "9">>

IsDigit(c) == \E i \in 1..10 : Digits[i] = c

DigitValue(c) == (CHOOSE i \in 1..10 : Digits[i] = c) - 1

\* the decimal digits of n >= 0, as the template literal `${n}` renders them
RECURSIVE ToDigits(_)
ToDigits(n) ==
    IF n < 10 THEN <<Digits[n + 1]>> ELSE ToDigits(n \div 10) \o <<Digits[(n % 10) + 1]>>

\* the number of digits s starts with
RECURSIVE DigitRun(_)
DigitRun(s) == IF s # <<>> /\ IsDigit(Head(s)) THEN 1 + DigitRun(Tail(s)) ELSE 0

\* the value of a digit string, 0 for the empty one (parameter omitted)
RECURSIVE DigitsValue(_)
DigitsValue(s) ==
    IF s = <<>> THEN 0 ELSE 10 * DigitsValue(SubSeq(s, 1, Len(s) - 1)) + DigitValue(s[Len(s)])

\* a character outside an escape sequence
TermChar(t, c) ==
    CASE c = "CR" -> [t EXCEPT !.cursorX = 0]
      [] c = "LF" -> [t EXCEPT !.row = <<>>,
                               !.rowsAbove = TRUE]
      [] c = "BS" -> [t EXCEPT !.cursorX = IF t.cursorX > 0 THEN t.cursorX - 1 ELSE 0]
      [] OTHER    -> [t EXCEPT !.row = IF IsSpace(c) THEN TrimEnd(PutCell(t.row, t.cursorX, c))
                                      ELSE PutCell(t.row, t.cursorX, c),
                               !.cursorX = t.cursorX + 1]

\* ESC [ n final: G moves the cursor to column n (1-based, 1 when omitted),
\* K erases from the cursor to the end of the row, m sets the colour
TermCsi(t, final, n) ==
    CASE final = "G" -> [t EXCEPT !.cursorX = IF n > 0 THEN n - 1 ELSE 0]
      [] final = "K" -> [t EXCEPT !.row = TrimEnd(SubSeq(t.row, 1, Min(t.cursorX, Len(t.row))))]
      [] OTHER       -> t

\* the terminal's parser over the characters of one write
RECURSIVE TermData(_, _)
TermData(t, data) ==
    IF data = <<>> THEN t
    ELSE IF Head(data) = "ESC" /\ Len(data) >= 2 /\ data[2] = "["
    THEN LET rest == SubSeq(data, 3, Len(data))
             nd == DigitRun(rest)
         IN  IF nd >= Len(rest) THEN t
             ELSE TermData(TermCsi(t, rest[nd + 1], DigitsValue(SubSeq(rest, 1, nd))),
                           SubSeq(rest, nd + 2, Len(rest)))
    ELSE TermData(TermChar(t, Head(data)), Tail(data))

\* the calls the component makes on the terminal
OpWrite(data) == [op |-> "write", data |-> data]
OpWriteln(s) == [op |-> "writeln", data |-> s]
OpClear == [op |-> "clear", data |-> <<>>]
OpFocus == [op |-> "focus", data |-> <<>>]

TermOp(t, o) ==
    CASE o.op = "write"   -> TermData(t, o.data)
      [] o.op = "writeln" -> TermData(t, o.data \o <<"CR", "LF">>)
      [] o.op = "clear"   -> [t EXCEPT !.rowsAbove = FALSE]
      [] OTHER            -> t

RECURSIVE TermOps(_, _)
TermOps(t, ops) ==
    IF ops = <<>> THEN t ELSE TermOps(TermOp(t, Head(ops)), Tail(ops))


(* ------------------------------- state --------------------------------- *)
VARIABLES
    dispatch,           \* the dispatch prop is configured
    termRef,            \* termRef.current: 0 (null) or 1 (the live terminal)
    term,               \* the display of the live terminal
    isDisposed,         \* isDisposed.current
    isInitialized,      \* isInitialized.current
    historyLineData,    \* historyLineData.current
    currentLineData,    \* currentLineData.current
    lastCommandIndex,   \* lastCommandIndex.current
    pending,            \* callbacks handed to dispatch and not yet called
    latePending,        \* those of them handed over under an earlier terminal
    onresize,           \* window.onresize: "none", "other" (another component's) or "shell"
    lastEvent,          \* the handler that ran last
    lastLate,           \* it was a callback handed over under an earlier terminal
    lastOps,            \* the calls it made on the terminal, in order
    lastDispatch,       \* the actions it handed to dispatch, in order
    lastRes,            \* the response it was called with, <<>> when it is no callback
    threw               \* a handler called a method of a null terminal

\* the remote terminal view (XtermTerminal)
VARIABLES
    mounts,             \* runs of the effect so far; run g creates terminal, addon and socket g
    termInstance,       \* termInstance.current: 0 (null) or the terminal's number
    fitAddonInstance,   \* fitAddonInstance.current: 0 (null) or the addon's number
    socketInstance,     \* socketInstance.current: 0 (null) or the socket's number
    connected,          \* socket.connected of the socket in socketInstance
    listener,           \* debouncedFit is registered for the window's resize event
    container,          \* the size of the container, in cells
    dims,               \* cols and rows of the terminal in termInstance
    timers,             \* pending timeouts
    promises,           \* pending clipboard promises
    burstCalls,         \* calls of fitToscreen by the registered debouncedFit since the
                        \* last resize event
    xEvent,             \* the callback of the remote view that ran last
    xOps                \* the calls it made on terminals, addons and sockets, in order

shellVars ==
    <<dispatch, termRef, term, isDisposed, isInitialized, historyLineData,
      currentLineData, lastCommandIndex, pending, latePending, onresize, lastEvent, lastLate, lastOps,
      lastDispatch, lastRes,
      threw>>

remoteVars ==
    <<mounts, termInstance, fitAddonInstance, socketInstance, connected, listener, container,
      dims, timers, promises, burstCalls, xEvent, xOps>>

vars == <<shellVars, remoteVars>>

refs == <<historyLineData, currentLineData, lastCommandIndex>>

(* ------------------------------- inputs -------------------------------- *)
KeyEnter == <<"CR">>
KeyDelete == <<"DEL">>
KeyUp == <<"ESC", "[", "A">>
KeyDown == <<"ESC", "[", "B">>

\* what onData delivers besides the four keys above: a typed character, or
\* a pasted string
Printable == {<<"a">>, <<" ">>, ClearCmd}

\* the input lines the user composes: any line of at most MaxLine characters,
\* and the clear command, bare or after a blank
Composed(line) == Len(line) <= MaxLine \/ line \in {ClearCmd, <<" ">> \o ClearCmd}

\* key.charCodeAt(0)
CharCodeAt0(key) ==
    CASE Head(key) = "CR" -> 13
      [] Head(key) = "DEL" -> 127
      [] Head(key) = "ESC" -> 27
      [] OTHER -> 32

\* the responses a dispatcher passes to a task/terminalOperation callback:
\* res.data.taskListStr and res.data.errorData, each absent (<<>>) or <<value>>
JobResponse(list, err) == [taskListStr |-> list, errorData |-> err]

JobResponses ==
    {JobResponse(<< << <<"x">>, <<"y">> >> >>, <<>>),    \* two lines
     JobResponse(<< <<>> >>, << <<"e">> >>),            \* an empty array and an error text
     JobResponse(<<>>, << <<"e">> >>),                  \* an error text
     JobResponse(<<>>, << <<>> >>),                     \* an empty error text
     JobResponse(<<>>, <<>>)}                           \* neither

\* the responses passed to a task/queryTask callback: res.data.taskList
QueryResponses == [taskList : {<<>>, << << <<"x">>, <<"y">> >> >>}]

(* ------------------------------ writePrompt ---------------------------- *)
PromptData ==
    <<"CR", "LF", "ESC", "[", "9", "7", "m">> \o terminalTitleTemplate \o <<"ESC", "[", "0", "m">>

\* the guard every display access of the component is wrapped in
Live == ~isDisposed /\ termRef # 0

\* mutant: the prompt is written twice
writePromptTwice == IF Live THEN <<OpWrite(PromptData), OpWrite(PromptData)>> ELSE <<>>

\* writePrompt()
writePrompt == IF Live THEN <<OpWrite(PromptData)>> ELSE <<>>

\* the callbacks not yet called
PendingCount == pending.job + pending.query + latePending.job + latePending.query

(* -------------------------------- Init --------------------------------- *)
\* cols and rows of a terminal as constructed (the xterm defaults)
DefaultDims == [cols |-> 80, rows |-> 24]

\* a size of the container in which the default terminal does not fit
LargeDims == [cols |-> 120, rows |-> 40]

\* the sizes the container takes
Sizes == {DefaultDims, LargeDims}

NoTimers == [initial |-> {}, connect |-> 0, debounce |-> 0, staleDebounce |-> 0]

NoPromises == [paste |-> 0, copy |-> {}]

\* XtermTerminal before its effect has run
XtermIdle ==
    /\ mounts = 0
    /\ termInstance = 0
    /\ fitAddonInstance = 0
    /\ socketInstance = 0
    /\ connected = FALSE
    /\ listener = FALSE
    /\ dims = DefaultDims
    /\ timers = NoTimers
    /\ promises = NoPromises
    /\ burstCalls = 0
    /\ xEvent = "init"
    /\ xOps = <<>>

Init ==
    /\ dispatch \in BOOLEAN
    /\ termRef = 0
    /\ term = NewTerminal
    /\ isDisposed = FALSE
    /\ isInitialized = FALSE
    /\ historyLineData = <<>>
    /\ currentLineData = <<>>
    /\ lastCommandIndex = 0
    /\ pending = [job |-> 0, query |-> 0]
    /\ latePending = [job |-> 0, query |-> 0]
    /\ onresize = "none"
    /\ lastEvent = "init"
    /\ lastLate = FALSE
    /\ lastOps = <<>>
    /\ lastDispatch = <<>>
    /\ lastRes = <<>>
    /\ threw = FALSE
    /\ XtermIdle /\ container = DefaultDims

(* ------------------------- effect: mount, cleanup ---------------------- *)
QueryAction == [type |-> "task/queryTask", param |-> <<>>]

\* the effect body
Mount ==
    /\ termRef = 0
    /\ (~isInitialized /\ dispatch) => PendingCount < MaxPending
    /\ termRef' = 1
    /\ isDisposed' = FALSE
    /\ LET asks == ~isInitialized /\ dispatch
           ops == <<[op |-> "open", data |-> <<>>], [op |-> "fit", data |-> <<>>], OpFocus,
                    OpWrite(PromptData)>>
       IN  /\ lastDispatch' = IF asks THEN <<QueryAction>> ELSE <<>>
           /\ pending' = IF asks THEN [pending EXCEPT !.query = @ + 1] ELSE pending
           /\ isInitialized' = IF asks THEN isInitialized ELSE TRUE
           /\ lastOps' = ops
           /\ term' = TermOps(NewTerminal, ops)
    /\ onresize' = "shell"
    /\ lastEvent' = "mount"
    /\ lastLate' = FALSE
    /\ lastRes' = <<>>
    /\ UNCHANGED <<dispatch, refs, latePending, threw>>
    /\ UNCHANGED remoteVars

\* the effect's cleanup
Cleanup ==
    /\ termRef # 0
    /\ isDisposed' = TRUE
    /\ termRef' = 0
    /\ term' = NewTerminal
    /\ lastOps' = <<[op |-> "dispose", data |-> <<>>]>>
    /\ lastDispatch' = <<>>
    /\ lastEvent' = "cleanup"
    /\ lastLate' = FALSE
    /\ lastRes' = <<>>
    /\ pending' = [job |-> 0, query |-> 0]
    /\ latePending' = [job |-> latePending.job + pending.job,
                       query |-> latePending.query + pending.query]
    /\ UNCHANGED <<dispatch, isInitialized, refs, onresize, threw>>
    /\ UNCHANGED remoteVars


(* --------------------------- onData: helpers --------------------------- *)
\* writeKey(k)
writeKey(k) == IF Live THEN <<OpWrite(k)>> ELSE <<>>

\* mutant: the rest of the line is not erased
clearCurrentLineNoErase ==
    IF Live
    THEN <<OpWrite(<<"ESC", "[", "G">>),
           OpWrite(<<"ESC", "[">> \o ToDigits(promptLength + 1) \o <<"G">>)>>
    ELSE <<>>

\* clearCurrentLine()
clearCurrentLine ==
    IF Live
    THEN <<OpWrite(<<"ESC", "[", "G">>),
           OpWrite(<<"ESC", "[">> \o ToDigits(promptLength + 1) \o <<"G">>),
           OpWrite(<<"ESC", "[", "K">>)>>
    ELSE <<>>

\* mutant: the boundary column is let through
BackspaceActsAtPrompt == Live /\ term.cursorX >= promptLength

\* the condition under which writeBackspace() acts
BackspaceActs == Live /\ term.cursorX > promptLength

\* a % b as JavaScript computes it (the sign of a), for b > 0
JsRem(a, b) == IF a >= 0 THEN a % b ELSE 0 - ((0 - a) % b)

\* arr[i] || '' with a JavaScript (0-based) index
ItemOrEmpty(arr, i) == IF i >= 0 /\ i < Len(arr) THEN arr[i + 1] ELSE <<>>

\* mutant: the cursor is not checked against 0
UpActsUnclamped == Len(historyLineData) > 0

\* the condition of the Up branch
UpActs == Len(historyLineData) > 0 /\ lastCommandIndex > 0

\* the condition of the Down branch
DownActs == Len(historyLineData) > 0 /\ lastCommandIndex < Len(historyLineData)

\* the entry the Up branch recalls, given the decremented index
UpEntry(idx) == ItemOrEmpty(historyLineData, JsRem(idx, Len(historyLineData)))

\* the entry the Down branch writes, given the incremented index
DownEntry(idx) == ItemOrEmpty(historyLineData, JsRem(idx - 1, Len(historyLineData)))

\* mutant: the line is taken untrimmed
CurrentCommandUntrimmed(line) == line

\* currentCommand = currentLineData.current.trim()
CurrentCommand(line) == Trim(line)

\* mutant: the empty command is pushed too
PushesAlways(cmd) == TRUE

\* the condition under which the Enter branch pushes the command on the history
PushesHistory(cmd) == cmd # <<>>

\* mutant: another reserved word
IsClsCommand(cmd) == cmd = <<"c", "l", "s">>

\* currentCommand === 'clear'
IsClearCommand(cmd) == cmd = ClearCmd

\* mutant: = in place of +=
AppendKeyReplaces(line, key) == key

\* currentLineData.current += key
AppendKey(line, key) == line \o key

\* mutant: the empty command is handed over too
RunJobIgnoresEmpty(param) == dispatch /\ Live

\* the condition under which runJob(param) hands the command to dispatch
RunJobDispatches(param) == param # <<>> /\ dispatch /\ Live

JobAction(param) == [type |-> "task/terminalOperation", param |-> param]

(* --------------------------- onData: branches -------------------------- *)
\* key.charCodeAt(0) === 13
Enter ==
    LET currentCommand == CurrentCommand(currentLineData)
        pushes == PushesHistory(currentCommand)
        clears == IsClearCommand(currentCommand) /\ Live
        runs == dispatch /\ RunJobDispatches(currentCommand)
        ops == (IF clears THEN <<OpClear>> ELSE <<>>) \o (IF runs THEN <<>> ELSE writePrompt)
    IN  /\ pushes => Len(historyLineData) < MaxHistory
        /\ runs => PendingCount < MaxPending
        /\ historyLineData' =
              IF pushes THEN Append(historyLineData, currentCommand) ELSE historyLineData
        /\ lastCommandIndex' =
              IF pushes THEN Len(historyLineData) + 1 ELSE lastCommandIndex
        /\ lastDispatch' = IF runs THEN <<JobAction(currentCommand)>> ELSE <<>>
        /\ pending' = IF runs THEN [pending EXCEPT !.job = @ + 1] ELSE pending
        /\ currentLineData' = <<>>
        /\ lastOps' = ops
        /\ term' = TermOps(term, ops)
        /\ lastEvent' = "enter"

\* key.charCodeAt(0) === 127
Backspace ==
    LET acts == BackspaceActs
    IN  /\ currentLineData' = IF acts THEN SliceDropLast(currentLineData) ELSE currentLineData
        /\ Composed(currentLineData')
        /\ lastOps' = IF acts THEN writeKey(<<"BS", " ", "BS">>) ELSE <<>>
        /\ term' = TermOps(term, lastOps')
        /\ lastEvent' = "backspace"
        /\ lastDispatch' = <<>>
        /\ UNCHANGED <<historyLineData, lastCommandIndex, pending>>

\* key === '\u001b[A'
Up ==
    /\ IF UpActs
       THEN LET idx == lastCommandIndex - 1
                line == UpEntry(idx)
            IN  /\ lastCommandIndex' = idx
                /\ currentLineData' = line
                /\ lastOps' = clearCurrentLine \o writeKey(line)
       ELSE /\ UNCHANGED <<lastCommandIndex, currentLineData>>
            /\ lastOps' = <<>>
    /\ term' = TermOps(term, lastOps')
    /\ lastEvent' = "up"
    /\ lastDispatch' = <<>>
    /\ UNCHANGED <<historyLineData, pending>>

\* key === '\u001b[B'
Down ==
    /\ IF DownActs
       THEN LET idx == lastCommandIndex + 1
                line == DownEntry(idx)
            IN  /\ lastCommandIndex' = idx
                /\ currentLineData' = IF idx = Len(historyLineData) THEN <<>> ELSE line
                /\ lastOps' = clearCurrentLine \o writeKey(line)
       ELSE /\ UNCHANGED <<lastCommandIndex, currentLineData>>
            /\ lastOps' = <<>>
    /\ term' = TermOps(term, lastOps')
    /\ lastEvent' = "down"
    /\ lastDispatch' = <<>>
    /\ UNCHANGED <<historyLineData, pending>>

\* any other key
Other(key) ==
    /\ currentLineData' = AppendKey(currentLineData, key)
    /\ Composed(currentLineData')
    /\ lastOps' = writeKey(key)
    /\ term' = TermOps(term, lastOps')
    /\ lastEvent' = "char"
    /\ lastDispatch' = <<>>
    /\ UNCHANGED <<historyLineData, lastCommandIndex, pending>>

\* the handler registered with term.onData, called by the live terminal
OnData(key) ==
    /\ termRef # 0
    /\ ~isDisposed
    /\ CASE CharCodeAt0(key) = 13 -> Enter
         [] CharCodeAt0(key) = 127 -> Backspace
         [] key = KeyUp -> Up
         [] key = KeyDown -> Down
         [] OTHER -> Other(key)
    /\ lastRes' = <<>>
    /\ lastLate' = FALSE
    /\ UNCHANGED <<dispatch, termRef, isDisposed, isInitialized, latePending, onresize, threw>>
    /\ UNCHANGED remoteVars

\* the Enter branch when dispatch(...) throws: runJob has no try/catch, so the
\* exception leaves runJob and the handler after the history push and the
\* clear; nothing after the call to runJob is executed
EnterDispatchThrows ==
    LET currentCommand == CurrentCommand(currentLineData)
        clears == IsClearCommand(currentCommand) /\ Live
    IN  /\ dispatch /\ RunJobDispatches(currentCommand)
        /\ PushesHistory(currentCommand)
        /\ Len(historyLineData) < MaxHistory
        /\ historyLineData' = Append(historyLineData, currentCommand)
        /\ lastCommandIndex' = Len(historyLineData) + 1
        /\ lastDispatch' = <<JobAction(currentCommand)>>
        /\ lastOps' = IF clears THEN <<OpClear>> ELSE <<>>
        /\ term' = TermOps(term, lastOps')
        /\ lastEvent' = "enterThrew"
        /\ UNCHANGED <<currentLineData, pending>>

\* the onData handler called with Enter, the dispatcher throwing
OnDataThrows ==
    /\ termRef # 0
    /\ ~isDisposed
    /\ EnterDispatchThrows
    /\ lastRes' = <<>>
    /\ lastLate' = FALSE
    /\ UNCHANGED <<dispatch, termRef, isDisposed, isInitialized, latePending, onresize, threw>>
    /\ UNCHANGED remoteVars


(* ------------------------------ callbacks ------------------------------ *)
\* mutant: the error text is looked at before the array
JobLinesErrorFirst(res) ==
    IF res.errorData # <<>> /\ res.errorData[1] # <<>> THEN <<OpWriteln(res.errorData[1])>>
    ELSE IF res.taskListStr # <<>>
    THEN [i \in 1..Len(res.taskListStr[1]) |-> OpWriteln(res.taskListStr[1][i])]
    ELSE <<>>

\* the lines the task/terminalOperation callback writes for a response
JobLines(res) ==
    IF res.taskListStr # <<>> THEN [i \in 1..Len(res.taskListStr[1]) |-> OpWriteln(res.taskListStr[1][i])]
    ELSE IF res.errorData # <<>> /\ res.errorData[1] # <<>> THEN <<OpWriteln(res.errorData[1])>>
    ELSE <<>>

\* mutant: the callback does not check that the terminal is live
JobCallbackUnguarded == TRUE

\* the guard of the task/terminalOperation callback
JobCallbackGuard == ~isDisposed /\ termRef # 0

\* the guard of the task/queryTask callback
QueryCallbackGuard == ~isDisposed /\ termRef # 0

\* the dispatcher calls the callback of a task/terminalOperation action
JobCallback(res) ==
    /\ \E late \in BOOLEAN :
          /\ IF late THEN latePending.job > 0 ELSE pending.job > 0
          /\ pending' = IF late THEN pending ELSE [pending EXCEPT !.job = @ - 1]
          /\ latePending' = IF late THEN [latePending EXCEPT !.job = @ - 1] ELSE latePending
          /\ lastLate' = late
    /\ IF JobCallbackGuard
       THEN IF termRef = 0
            THEN /\ threw' = TRUE
                 /\ lastOps' = <<>>
            ELSE /\ lastOps' = <<OpWrite(<<"CR", "LF">>)>> \o JobLines(res) \o writePrompt
                                  \o <<OpFocus>>
                 /\ UNCHANGED threw
       ELSE /\ lastOps' = <<>>
            /\ UNCHANGED threw
    /\ term' = TermOps(term, lastOps')
    /\ lastEvent' = "jobCallback"
    /\ lastRes' = res
    /\ lastDispatch' = <<>>
    /\ UNCHANGED <<dispatch, termRef, isDisposed, isInitialized, refs, onresize>>
    /\ UNCHANGED remoteVars

\* the dispatcher calls the callback of a task/queryTask action
QueryCallback(res) ==
    /\ \E late \in BOOLEAN :
          /\ IF late THEN latePending.query > 0 ELSE pending.query > 0
          /\ pending' = IF late THEN pending ELSE [pending EXCEPT !.query = @ - 1]
          /\ latePending' = IF late THEN [latePending EXCEPT !.query = @ - 1] ELSE latePending
          /\ lastLate' = late
    /\ IF QueryCallbackGuard
       THEN IF termRef = 0
            THEN /\ threw' = TRUE
                 /\ lastOps' = <<>>
                 /\ UNCHANGED isInitialized
            ELSE /\ lastOps' =
                       (IF res.taskList # <<>>
                        THEN [i \in 1..Len(res.taskList[1]) |-> OpWriteln(res.taskList[1][i])]
                        ELSE <<>>) \o writePrompt
                 /\ isInitialized' = TRUE
                 /\ UNCHANGED threw
       ELSE /\ lastOps' = <<>>
            /\ UNCHANGED <<threw, isInitialized>>
    /\ term' = TermOps(term, lastOps')
    /\ lastEvent' = "queryCallback"
    /\ lastRes' = res
    /\ lastDispatch' = <<>>
    /\ UNCHANGED <<dispatch, termRef, isDisposed, refs, onresize>>
    /\ UNCHANGED remoteVars

(* ---------------------------- specification ---------------------------- *)
Keys == {KeyEnter, KeyDelete, KeyUp, KeyDown} \cup Printable

Next ==
    \/ Mount
    \/ Cleanup
    \/ \E key \in Keys : OnData(key)
    \/ \E res \in JobResponses : JobCallback(res)
    \/ \E res \in QueryResponses : QueryCallback(res)

Spec == Init /\ [][Next]_vars

\* the shell with a dispatcher that may throw when it is called
NextFaulty == Next \/ OnDataThrows

SpecFaulty == Init /\ [][NextFaulty]_vars

\* the page holds other components: window.onresize may be theirs when the
\* shell is first rendered
InitWindow ==
    /\ dispatch \in BOOLEAN
    /\ termRef = 0
    /\ term = NewTerminal
    /\ isDisposed = FALSE
    /\ isInitialized = FALSE
    /\ historyLineData = <<>>
    /\ currentLineData = <<>>
    /\ lastCommandIndex = 0
    /\ pending = [job |-> 0, query |-> 0]
    /\ latePending = [job |-> 0, query |-> 0]
    /\ onresize \in {"none", "other"}
    /\ lastEvent = "init"
    /\ lastLate = FALSE
    /\ lastOps = <<>>
    /\ lastDispatch = <<>>
    /\ lastRes = <<>>
    /\ threw = FALSE
    /\ XtermIdle /\ container = DefaultDims

\* the window fires a resize event: the handler in window.onresize runs; the
\* shell's handler is () => fitPlugin.current.fit()
WindowResize ==
    /\ lastOps' = IF onresize = "shell" THEN <<[op |-> "fit", data |-> <<>>]>> ELSE <<>>
    /\ lastEvent' = "resize"
    /\ lastLate' = FALSE
    /\ lastDispatch' = <<>>
    /\ lastRes' = <<>>
    /\ UNCHANGED <<dispatch, termRef, term, isDisposed, isInitialized, refs, pending,
                   latePending, onresize, threw>>
    /\ UNCHANGED remoteVars

NextWindow == Next \/ WindowResize

SpecWindow == InitWindow /\ [][NextWindow]_vars

\* the shell that stays mounted, with a dispatcher that calls every callback
\* it was handed
NextMounted ==
    \/ Mount
    \/ \E key \in Keys : OnData(key)
    \/ \E res \in JobResponses : JobCallback(res)
    \/ \E res \in QueryResponses : QueryCallback(res)

\* a step of JobCallback, by what it does to the pending callbacks: the
\* dispatcher calls the callback of every action it was handed
JobCallbackStep ==
    /\ pending.job > 0
    /\ pending' = [pending EXCEPT !.job = @ - 1]
    /\ lastEvent' = "jobCallback"

SpecLive ==
    /\ Init
    /\ [][NextMounted]_vars
    /\ WF_<<pending, lastEvent>>(JobCallbackStep)


(* ------------------------ the remote terminal view --------------------- *)
\* a call on terminal, addon or socket number gen; disposed: the object had
\* been disposed (the socket disconnected) by the cleanup before the call
XOp(op, gen, data) == [op |-> op, gen |-> gen, disposed |-> gen # termInstance, data |-> data]

NoData == [cols |-> 0, rows |-> 0]

\* fitAddon.fit(): the terminal takes the cols and rows that fit the container
FitDims == container

\* the condition of fitToscreen
FitToscreenActs ==
    fitAddonInstance # 0 /\ termInstance # 0 /\ socketInstance # 0 /\ connected

\* mutant: the dimensions are read before the fit
EmittedDimsBeforeFit(before, after) == before

\* the dims fitToscreen emits: the terminal's cols and rows, read after the fit
EmittedDims(before, after) == after

\* the calls of fitToscreen(); throws: fit() throws, which the catch absorbs
fitToscreen(throws) ==
    IF FitToscreenActs
    THEN IF throws
         THEN <<XOp("fitThrew", fitAddonInstance, NoData)>>
         ELSE <<XOp("fit", fitAddonInstance, FitDims),
                XOp("emit resize", socketInstance, EmittedDims(dims, FitDims))>>
    ELSE <<>>

\* cols and rows of the live terminal after fitToscreen()
DimsAfterFit(throws) == IF FitToscreenActs /\ ~throws THEN FitDims ELSE dims

\* the effect body
XtermMount ==
    /\ termInstance = 0
    /\ mounts < MaxMounts
    /\ mounts' = mounts + 1
    /\ termInstance' = mounts'
    /\ fitAddonInstance' = mounts'
    /\ socketInstance' = mounts'
    /\ connected' = FALSE
    /\ listener' = TRUE
    /\ dims' = DefaultDims
    /\ timers' = [timers EXCEPT !.initial = @ \cup {mounts'}]
    /\ xEvent' = "mount"
    /\ xOps' = <<[op |-> "open", gen |-> mounts', disposed |-> FALSE, data |-> NoData]>>
    /\ burstCalls' = 0
    /\ UNCHANGED <<container, promises>>
    /\ UNCHANGED shellVars

\* the effect's cleanup; a pending timeout of debouncedFit is not cleared
XtermCleanup ==
    /\ termInstance # 0
    /\ listener' = FALSE
    /\ connected' = FALSE
    /\ socketInstance' = 0
    /\ termInstance' = 0
    /\ fitAddonInstance' = 0
    /\ timers' = [timers EXCEPT !.debounce = 0, !.staleDebounce = @ + timers.debounce]
    /\ xEvent' = "cleanup"
    /\ xOps' = <<XOp("disconnect", socketInstance, NoData), XOp("dispose", termInstance, NoData)>>
    /\ burstCalls' = 0
    /\ UNCHANGED <<mounts, container, dims, promises>>
    /\ UNCHANGED shellVars

\* the timeout set at line 149 fires: it uses the effect's own term and fitAddon
InitialTimer(g) ==
    /\ g \in timers.initial
    /\ timers' = [timers EXCEPT !.initial = @ \ {g}]
    /\ xEvent' = "initialTimer"
    /\ xOps' = <<XOp("fit", g, FitDims), XOp("writeln", g, NoData), XOp("focus", g, NoData)>>
    /\ dims' = IF g = termInstance THEN FitDims ELSE dims
    /\ UNCHANGED <<mounts, termInstance, fitAddonInstance, socketInstance, connected, listener,
                   container, promises, burstCalls>>
    /\ UNCHANGED shellVars

\* term.onData: the user's input goes to the socket
XtermOnData ==
    /\ termInstance # 0
    /\ xEvent' = "data"
    /\ xOps' = IF socketInstance # 0 THEN <<XOp("emit pty-input", socketInstance, NoData)>>
               ELSE <<>>
    /\ UNCHANGED <<mounts, termInstance, fitAddonInstance, socketInstance, connected, listener,
                   container, dims, timers, promises, burstCalls>>
    /\ UNCHANGED shellVars

\* socket.on("connect"): fitToscreen is deferred by a timeout of 0 ms
SocketConnect ==
    /\ socketInstance # 0 /\ ~connected
    /\ timers.connect < MaxTimers
    /\ connected' = TRUE
    /\ timers' = [timers EXCEPT !.connect = @ + 1]
    /\ xEvent' = "connect"
    /\ xOps' = <<>>
    /\ UNCHANGED <<mounts, termInstance, fitAddonInstance, socketInstance, listener, container,
                   dims, promises, burstCalls>>
    /\ UNCHANGED shellVars

\* socket.on("disconnect"): the server or the network closed the connection
SocketDisconnect ==
    /\ socketInstance # 0 /\ connected
    /\ connected' = FALSE
    /\ xEvent' = "disconnect"
    /\ xOps' = <<XOp("writeln", socketInstance, NoData)>>
    /\ UNCHANGED <<mounts, termInstance, fitAddonInstance, socketInstance, listener, container,
                   dims, timers, promises, burstCalls>>
    /\ UNCHANGED shellVars

\* socket.on("connect_error")
SocketConnectError ==
    /\ socketInstance # 0 /\ ~connected
    /\ xEvent' = "connect_error"
    /\ xOps' = <<XOp("writeln", socketInstance, NoData)>>
    /\ UNCHANGED <<mounts, termInstance, fitAddonInstance, socketInstance, connected, listener,
                   container, dims, timers, promises, burstCalls>>
    /\ UNCHANGED shellVars

\* socket.on("pty-output")
PtyOutput ==
    /\ socketInstance # 0 /\ connected
    /\ xEvent' = "pty-output"
    /\ xOps' = <<XOp("write", socketInstance, NoData)>>
    /\ UNCHANGED <<mounts, termInstance, fitAddonInstance, socketInstance, connected, listener,
                   container, dims, timers, promises, burstCalls>>
    /\ UNCHANGED shellVars

\* the timeout set by the connect handler fires
ConnectTimer ==
    /\ timers.connect > 0
    /\ timers' = [timers EXCEPT !.connect = @ - 1]
    /\ \E throws \in BOOLEAN :
          /\ xOps' = fitToscreen(throws)
          /\ dims' = DimsAfterFit(throws)
    /\ xEvent' = "connectTimer"
    /\ UNCHANGED <<mounts, termInstance, fitAddonInstance, socketInstance, connected, listener,
                   container, promises, burstCalls>>
    /\ UNCHANGED shellVars

\* debounce: the pending timeouts after a call of the debounced function
DebounceArm(n) == 1

\* the window fires a resize event, the container taking the size to;
\* debouncedFit runs while it is registered
XtermResize(to) ==
    /\ container' = to
    /\ timers' = IF listener THEN [timers EXCEPT !.debounce = DebounceArm(@)] ELSE timers
    /\ burstCalls' = 0
    /\ xEvent' = "resize"
    /\ xOps' = <<>>
    /\ UNCHANGED <<mounts, termInstance, fitAddonInstance, socketInstance, connected, listener,
                   dims, promises>>
    /\ UNCHANGED shellVars

\* the timeout of debouncedFit fires, 50 ms after the last resize event;
\* stale: it was set by the debouncedFit of an earlier run of the effect
DebounceTimer(stale) ==
    /\ IF stale THEN timers.staleDebounce > 0 ELSE timers.debounce > 0
    /\ timers' = IF stale THEN [timers EXCEPT !.staleDebounce = @ - 1]
                          ELSE [timers EXCEPT !.debounce = @ - 1]
    /\ burstCalls' = IF stale THEN burstCalls ELSE burstCalls + 1
    /\ \E throws \in BOOLEAN :
          /\ xOps' = fitToscreen(throws)
          /\ dims' = DimsAfterFit(throws)
    /\ xEvent' = "debounceTimer"
    /\ UNCHANGED <<mounts, termInstance, fitAddonInstance, socketInstance, connected, listener,
                   container, promises>>
    /\ UNCHANGED shellVars

\* customKeyEventHandler, Ctrl+Shift+V: the clipboard is read
KeyPaste ==
    /\ termInstance # 0
    /\ promises.paste < MaxPromises
    /\ promises' = [promises EXCEPT !.paste = @ + 1]
    /\ xEvent' = "keyPaste"
    /\ xOps' = <<>>
    /\ UNCHANGED <<mounts, termInstance, fitAddonInstance, socketInstance, connected, listener,
                   container, dims, timers, burstCalls>>
    /\ UNCHANGED shellVars

\* readText() settles: termInstance.current?.write(toPaste) when it resolves
PasteSettles(resolves) ==
    /\ promises.paste > 0
    /\ promises' = [promises EXCEPT !.paste = @ - 1]
    /\ xEvent' = "paste"
    /\ xOps' = IF resolves /\ termInstance # 0 THEN <<XOp("write", termInstance, NoData)>>
               ELSE <<>>
    /\ UNCHANGED <<mounts, termInstance, fitAddonInstance, socketInstance, connected, listener,
                   container, dims, timers, burstCalls>>
    /\ UNCHANGED shellVars

\* customKeyEventHandler, Ctrl+Shift+C or X with a selection: the selection
\* is written to the clipboard, the handler keeping the terminal in `term`
KeyCopy ==
    /\ termInstance # 0
    /\ termInstance \notin promises.copy
    /\ promises' = [promises EXCEPT !.copy = @ \cup {termInstance}]
    /\ xEvent' = "keyCopy"
    /\ xOps' = <<>>
    /\ UNCHANGED <<mounts, termInstance, fitAddonInstance, socketInstance, connected, listener,
                   container, dims, timers, burstCalls>>
    /\ UNCHANGED shellVars

\* writeText() settles: term.focus(), term.clearSelection() when it resolves
CopySettles(g, resolves) ==
    /\ g \in promises.copy
    /\ promises' = [promises EXCEPT !.copy = @ \ {g}]
    /\ xEvent' = "copy"
    /\ xOps' = IF resolves THEN <<XOp("focus", g, NoData), XOp("clearSelection", g, NoData)>>
               ELSE <<>>
    /\ UNCHANGED <<mounts, termInstance, fitAddonInstance, socketInstance, connected, listener,
                   container, dims, timers, burstCalls>>
    /\ UNCHANGED shellVars

\* XtermTerminal alone on the page
InitRemote ==
    /\ dispatch = FALSE
    /\ termRef = 0
    /\ term = NewTerminal
    /\ isDisposed = FALSE
    /\ isInitialized = FALSE
    /\ historyLineData = <<>>
    /\ currentLineData = <<>>
    /\ lastCommandIndex = 0
    /\ pending = [job |-> 0, query |-> 0]
    /\ latePending = [job |-> 0, query |-> 0]
    /\ onresize = "none"
    /\ lastEvent = "init"
    /\ lastLate = FALSE
    /\ lastOps = <<>>
    /\ lastDispatch = <<>>
    /\ lastRes = <<>>
    /\ threw = FALSE
    /\ XtermIdle
    /\ container \in Sizes

NextRemote ==
    \/ XtermMount
    \/ XtermCleanup
    \/ \E g \in 1..MaxMounts : InitialTimer(g)
    \/ XtermOnData
    \/ SocketConnect
    \/ SocketDisconnect
    \/ SocketConnectError
    \/ PtyOutput
    \/ ConnectTimer
    \/ \E to \in Sizes : XtermResize(to)
    \/ \E stale \in BOOLEAN : DebounceTimer(stale)
    \/ KeyPaste
    \/ \E resolves \in BOOLEAN : PasteSettles(resolves)
    \/ KeyCopy
    \/ \E g \in 1..MaxMounts, resolves \in BOOLEAN : CopySettles(g, resolves)

\* a step of DebounceTimer(FALSE), by what it does to the pending timeouts:
\* the event loop runs every timeout that is due
DebounceTimerStep == timers.debounce > 0 /\ timers' = [timers EXCEPT !.debounce = @ - 1]

SpecRemote ==
    /\ InitRemote
    /\ [][NextRemote]_vars
    /\ WF_timers(DebounceTimerStep)


(* ------------------------- what the display shows ---------------------- *)
\* the cursor row starts with the prompt
PromptIntact == \A i \in 1..promptLength : Cell(term, i) = visiblePrompt[i]

\* the text on the cursor row after the prompt (blanks at the end aside)
Shown ==
    IF Len(term.row) > promptLength
    THEN SubSeq(term.row, promptLength + 1, Len(term.row))
    ELSE <<>>

\* the cursor row is the prompt followed by exactly the text s, the cursor after it
ShowsInput(s) ==
    /\ PromptIntact
    /\ term.cursorX = promptLength + Len(s)
    /\ \A i \in 1..Len(s) : Cell(term, promptLength + i) = s[i]
    /\ Len(term.row) <= term.cursorX

PromptOp == OpWrite(PromptData)

\* the entry at the history cursor, the empty line past the end
EntryAt(idx) == IF idx < Len(historyLineData) THEN historyLineData[idx + 1] ELSE <<>>

(* ------------------------------- claims -------------------------------- *)

\* C1: without a dispatcher, an Up with the history cursor above 0 moves it
\* back by one and displays the entry it now points at; an Up at 0 changes
\* nothing; a Down with the cursor below the length moves it forward by one
\* and displays the entry it now points at, the empty line when it reaches the
\* end (after "a", "b", "c": Up x3 shows c, b, a; Up is then a no-op; Down x3
\* shows b, c and the empty line).
C1_HistoryRoundTrip ==
    [][~dispatch =>
        /\ (lastEvent' = "up" /\ lastCommandIndex > 0) =>
              /\ lastCommandIndex' = lastCommandIndex - 1
              /\ PromptIntact' /\ Shown' = EntryAt(lastCommandIndex')
        /\ (lastEvent' = "up" /\ lastCommandIndex = 0) =>
              UNCHANGED <<currentLineData, lastCommandIndex, term>>
        /\ (lastEvent' = "down" /\ lastCommandIndex < Len(historyLineData)) =>
              /\ lastCommandIndex' = lastCommandIndex + 1
              /\ PromptIntact' /\ Shown' = EntryAt(lastCommandIndex')]_vars

\* C2: a freshly rendered prompt with an empty input line shows the empty
\* input; every printable key event appends its characters to the input line,
\* and when the display showed the input line before the event it shows the
\* longer input line after it.
C2_TypingEchoes ==
    /\ [](lastOps # <<>> /\ lastOps[Len(lastOps)] = PromptOp /\ currentLineData = <<>>
            => ShowsInput(<<>>))
    /\ [][lastEvent' = "char" =>
            /\ \E key \in Printable : currentLineData' = currentLineData \o key
            /\ ShowsInput(currentLineData) => ShowsInput(currentLineData)']_vars

C2_Witness ==
    /\ lastEvent = "char"
    /\ Len(currentLineData) > Len(ClearCmd)
    /\ ShowsInput(currentLineData)

\* C3: a callback that fires after the cleanup (terminal disposed, termRef
\* null) makes no call on a terminal and does not throw.
C3_NoWriteAfterUnmount ==
    (lastEvent \in {"jobCallback", "queryCallback"} /\ termRef = 0)
        => (lastOps = <<>> /\ term = NewTerminal /\ ~threw)

C3_Witness == lastEvent = "jobCallback" /\ termRef = 0 /\ isDisposed

\* the calls the claim prescribes for a response
C4Expected(res) ==
    <<OpWrite(<<"CR", "LF">>)>>
    \o (IF res.taskListStr # <<>>
        THEN [i \in 1..Len(res.taskListStr[1]) |-> OpWriteln(res.taskListStr[1][i])]
        ELSE IF res.errorData # <<>> /\ res.errorData[1] # <<>>
             THEN <<OpWriteln(res.errorData[1])>>
             ELSE <<>>)
    \o <<PromptOp, OpFocus>>

\* C4: when the callback of a submitted command fires while the terminal is
\* live, the terminal receives exactly: a line break, then every line of the
\* returned array in order, or else the (non-empty) error text as one line,
\* then the prompt, then focus.
C4_CallbackRenders ==
    (lastEvent = "jobCallback" /\ termRef # 0 /\ ~isDisposed) => lastOps = C4Expected(lastRes)

C4_Witness ==
    /\ lastEvent = "jobCallback"
    /\ lastRes.taskListStr = << << <<"x">>, <<"y">> >> >>
    /\ lastOps = <<OpWrite(<<"CR", "LF">>), OpWriteln(<<"x">>), OpWriteln(<<"y">>),
                   PromptOp, OpFocus>>

\* C5: the history cursor stays between 0 and the length of the history log.
C5_CursorInRange == 0 <= lastCommandIndex /\ lastCommandIndex <= Len(historyLineData)

\* an Up at cursor 0 and a Down at the end were both absorbed
C5_Witness ==
    /\ lastEvent = "up" /\ lastOps = <<>>
    /\ lastCommandIndex = 0
    /\ Len(historyLineData) = MaxHistory


\* C6: the history log only grows, by Enter on a line whose trimmed text is
\* not empty, which appends exactly that trimmed text; every other event
\* leaves it unchanged; every entry is non-empty and trimmed.
C6_HistoryAppendOnly ==
    /\ [](\A i \in 1..Len(historyLineData) :
            historyLineData[i] # <<>> /\ Trim(historyLineData[i]) = historyLineData[i])
    /\ [][IF lastEvent' = "enter" /\ Trim(currentLineData) # <<>>
          THEN historyLineData' = Append(historyLineData, Trim(currentLineData))
          ELSE historyLineData' = historyLineData]_vars

\* a command was logged a second time, the cursor having been moved by a recall
C6_Witness ==
    /\ lastEvent = "enter"
    /\ Len(historyLineData) = 2
    /\ historyLineData[1] = historyLineData[2]
    /\ lastCommandIndex = 2

\* C7: Enter on an empty or whitespace-only line leaves the history log and
\* the history cursor unchanged, hands nothing to the dispatcher and writes
\* the prompt, once and nothing else, with or without a dispatcher.
C7_BlankEnter ==
    [][(lastEvent' = "enter" /\ Trim(currentLineData) = <<>>) =>
          /\ UNCHANGED <<historyLineData, lastCommandIndex>>
          /\ lastDispatch' = <<>>
          /\ lastOps' = <<PromptOp>>]_vars

\* a blank line was entered with a dispatcher, the cursor inside the log
C7_Witness ==
    /\ lastEvent = "enter"
    /\ dispatch
    /\ lastOps = <<PromptOp>>
    /\ lastCommandIndex < Len(historyLineData)

\* C8: a Backspace with the cursor column at the prompt length changes
\* neither the input line, the history, the history cursor nor the display,
\* and no Backspace erases a cell of the prompt.
C8_BackspaceAtPrompt ==
    [][lastEvent' = "backspace" =>
          /\ term.cursorX = promptLength =>
                (UNCHANGED <<currentLineData, historyLineData, lastCommandIndex, term>>
                 /\ lastOps' = <<>>)
          /\ PromptIntact => PromptIntact']_vars

C8_Witness ==
    /\ lastEvent = "backspace"
    /\ lastOps = <<>>
    /\ term.cursorX = promptLength
    /\ PromptIntact

\* the calls of an event clear the terminal
Clears(ops) == \E i \in 1..Len(ops) : ops[i] = OpClear

\* C9: Enter clears the terminal exactly when the trimmed line is "clear",
\* and then "clear" is appended to the history log and the history cursor is
\* set to the length of the log; no other event clears the terminal.
C9_ClearCommand ==
    [][/\ Clears(lastOps') <=> (lastEvent' = "enter" /\ Trim(currentLineData) = ClearCmd)
       /\ (lastEvent' = "enter" /\ Trim(currentLineData) = ClearCmd) =>
             /\ historyLineData' = Append(historyLineData, ClearCmd)
             /\ lastCommandIndex' = Len(historyLineData')
             /\ lastOps'[1] = OpClear
             /\ lastOps' = <<OpClear>> => ~term'.rowsAbove]_vars

\* "clear" was entered with a dispatcher: the terminal holds the cursor row alone
C9_Witness ==
    /\ lastEvent = "enter"
    /\ lastOps = <<OpClear>>
    /\ ~term.rowsAbove
    /\ historyLineData[Len(historyLineData)] = ClearCmd

\* C10: with a dispatcher, Enter hands it exactly one task/terminalOperation
\* action, carrying the trimmed line, when the trimmed line is not empty, and
\* nothing otherwise; no other key event hands it anything; after every Enter
\* the input line is empty.
C10_DispatchOncePerCommand ==
    [][/\ lastEvent' = "enter" =>
             /\ currentLineData' = <<>>
             /\ lastDispatch' =
                   IF dispatch /\ Trim(currentLineData) # <<>>
                   THEN <<JobAction(Trim(currentLineData))>>
                   ELSE <<>>
       /\ lastEvent' \in {"backspace", "up", "down", "char"} => lastDispatch' = <<>>]_vars

\* the padded line " clear" was handed over as "clear"
C10_Witness ==
    /\ lastEvent = "enter"
    /\ lastDispatch = <<JobAction(ClearCmd)>>
    /\ Len(Shown) > Len(ClearCmd)
    /\ pending.job = 1

\* C11: when the dispatcher throws while Enter hands it a command, the prompt
\* is rendered again and the input line is reset to empty.
C11_DispatchThrowRecovers ==
    lastEvent = "enterThrew" =>
        /\ currentLineData = <<>>
        /\ lastOps # <<>> /\ lastOps[Len(lastOps)] = PromptOp

\* C12: a Down with the history cursor below the length erases the line and
\* moves the cursor forward by one; when the cursor reaches the length the
\* input line is empty and the display shows nothing after the prompt,
\* otherwise the input line is the entry before the new cursor and the
\* display shows it; either way the display shows the input line.
C12_DownShowsInput ==
    [][(lastEvent' = "down" /\ lastCommandIndex < Len(historyLineData)) =>
          /\ lastCommandIndex' = lastCommandIndex + 1
          /\ IF lastCommandIndex' = Len(historyLineData)
             THEN currentLineData' = <<>>
             ELSE currentLineData' = historyLineData[lastCommandIndex']
          /\ ShowsInput(currentLineData)']_vars

\* C13: with a dispatcher, whatever keys were typed while a callback was
\* pending, a prompt freshly rendered by the callback is followed by the
\* input line (cursor column - prompt length = length of the input line),
\* and a Backspace erases a cell of the display exactly when it removes a
\* character of the input line.
C13_AsyncConsistency ==
    /\ []((dispatch /\ Live /\ lastEvent \in {"jobCallback", "queryCallback"})
            => ShowsInput(currentLineData))
    /\ [][(dispatch /\ lastEvent' = "backspace") =>
            (term' # term <=> Len(currentLineData') = Len(currentLineData) - 1)]_vars

\* the number of prompts among the calls of an event
PromptCount(ops) == Cardinality({i \in 1..Len(ops) : ops[i] = PromptOp})

\* the write and writeln calls of an event
Writes(ops) == SelectSeq(ops, LAMBDA o : o.op \in {"write", "writeln"})

\* an Enter renders the prompt and nothing else at once when there is no
\* dispatcher or the command is empty, and otherwise writes nothing and hands
\* over one callback, which renders one prompt when it fires
EnterPromptStep ==
    /\ lastEvent' = "enter" =>
          IF ~dispatch \/ Trim(currentLineData) = <<>>
          THEN Writes(lastOps') = <<PromptOp>> /\ pending' = pending
          ELSE Writes(lastOps') = <<>> /\ pending' = [pending EXCEPT !.job = @ + 1]
    /\ lastEvent' = "jobCallback" =>
          PromptCount(lastOps') = 1 /\ pending' = [pending EXCEPT !.job = @ - 1]

\* every Enter is followed by a prompt, at once or from its callback
EnterLeadsToPrompt ==
    (lastEvent = "enter") ~>
        (lastEvent \in {"enter", "jobCallback"} /\ PromptCount(lastOps) = 1)

\* C14 as stated: every Enter leads to exactly one prompt, at once (nothing
\* but the prompt written) without a dispatcher or for an empty command, from
\* the callback otherwise; while the shell stays mounted and every callback
\* is called, every Enter is followed by a prompt and the prompts rendered
\* after the mount are as many as the Enters, so that no other event renders
\* one.
C14_PromptsEqualEnters ==
    /\ [][/\ EnterPromptStep
          /\ lastEvent' \notin {"enter", "jobCallback", "mount"} =>
                PromptCount(lastOps') = 0]_vars
    /\ EnterLeadsToPrompt

\* C14, amended: as above, except that with a dispatcher the callback of the
\* initial task/queryTask renders one more prompt, so that the prompts
\* rendered after the mount are the Enters answered so far plus one once that
\* callback has fired.
C14_PromptPerEnter ==
    /\ [][/\ EnterPromptStep
          /\ lastEvent' = "queryCallback" =>
                (PromptCount(lastOps') = 1 /\ ~isInitialized /\ isInitialized')
          /\ lastEvent' \notin {"enter", "jobCallback", "queryCallback", "mount"} =>
                PromptCount(lastOps') = 0]_vars
    /\ EnterLeadsToPrompt

\* the callback of a command rendered its prompt after the initial
\* task/queryTask callback had rendered one
C14_Witness ==
    /\ lastEvent = "jobCallback"
    /\ isInitialized /\ dispatch
    /\ PromptCount(lastOps) = 1
    /\ pending = [job |-> 0, query |-> 0]

\* C16: a callback handed over under an earlier terminal, firing after the
\* effect was torn down and run again, makes no call on the new terminal;
\* and the terminal a mount creates shows the input line (the empty line after
\* the prompt).
C16_CallbackBoundToDisplay ==
    /\ (lastEvent \in {"jobCallback", "queryCallback"} /\ lastLate) => lastOps = <<>>
    /\ lastEvent = "mount" => (ShowsInput(currentLineData) /\ currentLineData = <<>>)

\* C18: once the shell is unmounted and its terminal disposed, a window
\* resize event calls no fit for it, and a mount leaves a resize handler of
\* another component in place.
C18_ResizeScoped ==
    /\ []((lastEvent = "resize" /\ termRef = 0) => lastOps = <<>>)
    /\ [][(lastEvent' = "mount" /\ onresize = "other") => onresize' = "other"]_vars

\* C17: after the unmount of the remote view no callback makes a call on the
\* disposed terminal, its addon or the disconnected socket (initial timer,
\* debounce timer, deferred fit on connect, socket events, clipboard
\* promises), and every unmount disconnects the socket and disposes the
\* terminal.
C17_NoCallAfterUnmount ==
    /\ \A i \in 1..Len(xOps) : ~xOps[i].disposed
    /\ xEvent = "cleanup" =>
          (Len(xOps) = 2 /\ xOps[1].op = "disconnect" /\ xOps[2].op = "dispose"
           /\ termInstance = 0 /\ socketInstance = 0)

\* the fits among the calls of an event
FitCount(ops) == Cardinality({i \in 1..Len(ops) : ops[i].op = "fit"})

\* every fit is followed at once by one resize event with the cols and rows
\* the fit gave the terminal, and every resize event follows a fit
FitsPairedWithEmits(ops) ==
    \A i \in 1..Len(ops) :
        /\ ops[i].op = "fit" =>
              /\ i < Len(ops)
              /\ ops[i + 1].op = "emit resize"
              /\ ops[i + 1].data = ops[i].data
              /\ (i + 1 < Len(ops) => ops[i + 2].op # "emit resize")
        /\ ops[i].op = "emit resize" => (i > 1 /\ ops[i - 1].op = "fit")

\* a resize event at the registered debouncedFit leaves one timeout pending,
\* and a burst has at most one call of fitToscreen made or pending
OneCallPerBurst ==
    /\ [][(xEvent' = "resize" /\ listener) => (timers'.debounce = 1 /\ burstCalls' = 0)]_vars
    /\ [](timers.debounce + burstCalls <= 1)
    /\ [][xEvent' = "connect" => timers'.connect = timers.connect + 1]_vars

\* a pending timeout of the registered debouncedFit fires, unless the view
\* is unmounted first
DebounceFires ==
    (timers.debounce > 0) ~> ((xEvent = "debounceTimer" /\ burstCalls = 1) \/ ~listener)

\* C19 as stated: every burst of resize events results in exactly one fit,
\* after its last event, and every connection in one fit; each fit is
\* followed by exactly one resize event carrying the terminal's cols and
\* rows, and no resize event is emitted without a preceding fit.
C19_FitPerBurst ==
    /\ OneCallPerBurst
    /\ [][xEvent' \in {"debounceTimer", "connectTimer"} => FitCount(xOps') = 1]_vars
    /\ [](FitsPairedWithEmits(xOps))
    /\ [][\A i \in 1..Len(xOps') : xOps'[i].op = "emit resize" => xOps'[i].data = dims']_vars
    /\ DebounceFires

\* C19, amended: every burst results in exactly one call of fitToscreen by
\* the registered debouncedFit, after its last event, and every connection
\* in one deferred call; a call fits the terminal to the container only
\* while the view is mounted and the socket connected, and does nothing
\* otherwise; a fit by fitToscreen that does not throw is followed at once by
\* exactly one resize event carrying the cols and rows the terminal has after
\* the fit, and no resize event is emitted without a preceding fit; the
\* initial fit, 50 ms after the mount, emits nothing.
C19_FitWhileConnected ==
    /\ OneCallPerBurst
    /\ [][xEvent' \in {"debounceTimer", "connectTimer"} =>
            IF FitToscreenActs
            THEN \/ /\ FitCount(xOps') = 1 /\ Len(xOps') = 2
                    /\ dims' = container
                 \/ /\ Len(xOps') = 1 /\ xOps'[1].op = "fitThrew"
                    /\ dims' = dims
            ELSE xOps' = <<>> /\ dims' = dims]_vars
    /\ [](xEvent # "initialTimer" => FitsPairedWithEmits(xOps))
    /\ [](xEvent = "initialTimer" => \A i \in 1..Len(xOps) : xOps[i].op # "emit resize")
    /\ [][\A i \in 1..Len(xOps') : xOps'[i].op = "emit resize" => xOps'[i].data = dims']_vars
    /\ DebounceFires

\* the debounce timer fitted the terminal to the enlarged container and the
\* new size was sent
C19_Witness ==
    /\ xEvent = "debounceTimer"
    /\ burstCalls = 1
    /\ Len(xOps) = 2
    /\ xOps[2].op = "emit resize" /\ xOps[2].data = LargeDims
    /\ dims = LargeDims

\* C15: an Up with the history cursor above 0 moves it back by one, makes
\* the entry it now points at the input line and displays exactly that
\* entry after the intact prompt, whatever the line held before; an Up at
\* cursor 0 or with an empty log changes nothing.
C15_UpRecalls ==
    [][lastEvent' = "up" =>
          IF lastCommandIndex > 0 /\ Len(historyLineData) > 0
          THEN /\ lastCommandIndex' = lastCommandIndex - 1
               /\ currentLineData' = historyLineData[lastCommandIndex' + 1]
               /\ ShowsInput(currentLineData)'
               /\ historyLineData' = historyLineData
          ELSE /\ UNCHANGED <<currentLineData, lastCommandIndex, historyLineData, term>>
               /\ lastOps' = <<>>]_vars

\* the shorter first entry was recalled over the longer second one
C15_Witness ==
    /\ lastEvent = "up"
    /\ lastOps # <<>>
    /\ historyLineData = <<<<"a">>, ClearCmd>>
    /\ lastCommandIndex = 0
    /\ currentLineData = <<"a">>
    /\ Shown = <<"a">>

====
